---- MODULE Spec2Model ----
(***************************************************************************)
(* Botthew Office "Mission Control" server with input validation           *)
(* (the express server of src/unnamed/part_001): the in-memory agent       *)
(* state, the task log, the SSE client list and the request handlers.      *)
(*                                                                         *)
(* JavaScript values are modelled as follows.                              *)
(*   - strings are TLA+ strings; the functions the code applies to them    *)
(*     (toLowerCase, trim, length, the blocked-character regex) are given  *)
(*     by tables over the strings the model draws its inputs from;         *)
(*   - numbers are integers counting tenths, so that the JSON number 2.5   *)
(*     is 25 and 1000 is 10000 (Num, Frac below);                          *)
(*   - an object is a function from its own enumerable property names to   *)
(*     their values; a property that is not an own property is looked up   *)
(*     on the prototype chain (Object.prototype and what requests have     *)
(*     assigned to it).                                                    *)
(***************************************************************************)
EXTENDS Integers, Sequences, FiniteSets, TLC

VARIABLES
    agentState,     \* own properties of the agentState object: name -> record
    protoReplaced,  \* TRUE once agentState's prototype was replaced through "__proto__"
    objProto,       \* enumerable properties requests have put on Object.prototype
    fnProps,        \* enumerable properties requests have put on the inherited functions
    taskQueue,      \* taskQueue array
    taskHistory,    \* taskHistory array
    sseClients,     \* sseClients array: the response handles, in push order
    received,       \* handle -> sequence of the messages written to it successfully
    gone,           \* handles whose connection is lost and whose 'close' is still to come
    closed,         \* handle -> number of 'close' events its request has emitted
    published,      \* number of calls of broadcast() so far
    request,        \* the request (or close event) handled last: [op, body]
    response,       \* status and body of the response to the last request
    steps,          \* number of requests handled so far
    tasksAsString,  \* names whose record holds a string of digits as tasks (server.js only)
    clock,          \* the last value Date.now() returned (server.js only)
    manager         \* the Office Manager process of agent.js: its rounds, timer and exit

vars == <<agentState, protoReplaced, objProto, fnProps, taskQueue, taskHistory,
          sseClients, received, gone, closed, published, request, response, steps,
          tasksAsString, clock, manager>>

\* the variables of the server process
serverVars == <<agentState, protoReplaced, objProto, fnProps, taskQueue, taskHistory,
                sseClients, received, gone, closed, published, request, response, steps,
                tasksAsString, clock>>

(***************************************************************************)
(* Bounds of the model.                                                    *)
(***************************************************************************)
MaxSteps == 2      \* requests handled in one behaviour
MaxKeys == 2       \* keys in one update-state body
MaxClients == 2    \* /api/events connections opened in one behaviour
MaxCloses == 2     \* 'close' events handled for one connection
MaxRounds == 3     \* polling rounds the Office Manager starts in one behaviour

(***************************************************************************)
(* Numbers: tenths.                                                        *)
(***************************************************************************)
Num(n) == n * 10
Frac(n, tenth) == n * 10 + tenth
IsInteger(x) == x % 10 = 0

(***************************************************************************)
(* JavaScript null / undefined results of the string helpers.              *)
(***************************************************************************)
Null == "<null>"
NotAString == "<not a string>"

Range(s) == {s[i] : i \in DOMAIN s}

\* { ...a, ...b }: own properties of a overwritten by those of b
Spread(a, b) == [f \in (DOMAIN a) \cup (DOMAIN b) |-> IF f \in DOMAIN b THEN b[f] ELSE a[f]]

EmptyObject == [f \in {} |-> 0]

\* object with property f set to v
With(obj, f, v) == [g \in (DOMAIN obj) \cup {f} |-> IF g = f THEN v ELSE obj[g]]

(***************************************************************************)
(* Tables for the string functions, over every string the model uses.      *)
(***************************************************************************)
LongString == "AAAAAAAAAAAAAAAAAAAAAAAAAAAAAAAAAAAAAAAAAAAAAAAAAAA"

\* String.prototype.toLowerCase
ToLowerCase(s) ==
    CASE s = "ONLINE" -> "online"
      [] s = "Busy" -> "busy"
      [] s = " Idle " -> " idle "
      [] s = "Idle" -> "idle"
      [] s = " DevBot " -> " devbot "
      [] s = "DevBot" -> "devbot"
      [] s = "Botthew" -> "botthew"
      [] s = "Ghost" -> "ghost"
      [] s = "Dev<Bot" -> "dev<bot"
      [] s = LongString -> "aaaaaaaaaaaaaaaaaaaaaaaaaaaaaaaaaaaaaaaaaaaaaaaaaaa"
      [] OTHER -> s

\* String.prototype.trim
Trim(s) ==
    CASE s = " Idle " -> "Idle"
      [] s = " DevBot " -> "DevBot"
      [] s = " " -> ""
      [] OTHER -> s

\* str.length
Length(s) ==
    CASE s = "" -> 0
      [] s = " " -> 1
      [] s \in {"busy", "Busy", "idle", "Idle"} -> 4
      [] s = "Ghost" -> 5
      [] s \in {"online", "ONLINE", "DevBot", " Idle "} -> 6
      [] s \in {"offline", "working", "Botthew", "Dev<Bot"} -> 7
      [] s = " DevBot " -> 8
      [] s = "__proto__" -> 9
      [] s = "constructor" -> 11
      [] s = LongString -> 51

\* /[<>{}|&;`$\n]/.test(str)
HasBlockedChar(s) == s \in {"Dev<Bot"}

\* validateInput, part_001 lines 15-21
validateInput(str, maxLength) ==
    IF str = NotAString THEN Null
    ELSE IF Length(str) > maxLength THEN Null
    ELSE IF HasBlockedChar(str) THEN Null
    ELSE Trim(str)

\* !x for the result of validateInput: null and the empty string are falsy
Falsy(x) == x = Null \/ x = ""

(***************************************************************************)
(* The state at startup.                                                   *)
(***************************************************************************)
KnownAgents == {"Botthew", "DevBot", "ResearchBot", "WriterBot", "DesignBot",
                "DebugBot", "OpsBot", "DataBot", "SecurityBot"}

InitialAgentState ==
    [a \in KnownAgents |-> [status |-> "offline", tasks |-> Num(0), productivity |-> Num(0)]]

validStatuses == {"online", "offline", "idle", "busy"}

\* properties every object inherits from Object.prototype whose value is a function
InheritedFunctions == {"constructor", "toString"}

(***************************************************************************)
(* Property lookup.                                                        *)
(***************************************************************************)
\* obj.f is not undefined, for an object with own properties obj and prototype
\* Object.prototype (also: for a number, a string or an array without such a property)
HasProp(obj, f) == f \in DOMAIN obj \/ f \in DOMAIN objProto

\* obj.f for such an object
Get(obj, f) == IF f \in DOMAIN obj THEN obj[f] ELSE objProto[f]

\* what agentState[name] evaluates to, given agentState's own properties store:
\*   "own"        the record stored under name
\*   "prototype"  the prototype of agentState (the __proto__ accessor)
\*   "function"   a function inherited from Object.prototype
\*   "undefined"
\* (names are never "status" or "tasks", the only data properties requests can put
\* on Object.prototype)
Lookup(store, name) ==
    IF name \in DOMAIN store THEN "own"
    ELSE IF name = "__proto__" THEN "prototype"
    ELSE IF name \in InheritedFunctions THEN "function"
    ELSE "undefined"

\* !agentState[name] is false
Truthy(store, name) == Lookup(store, name) # "undefined"

\* the own enumerable properties of the object agentState[name], when it is truthy;
\* those of a prototype that replaced the original one are not tracked: no request
\* of the model reads them
OwnProps(store, name) ==
    CASE Lookup(store, name) = "own" -> store[name]
      [] Lookup(store, name) = "function" -> fnProps[name]
      [] Lookup(store, name) = "prototype" -> IF protoReplaced THEN EmptyObject ELSE objProto

(***************************************************************************)
(* broadcast, part_001 lines 57-61: one write to every client of the list, *)
(* in list order. The write to a handle whose connection is lost fails:    *)
(* ServerResponse.write reports the error to its (absent) callback and     *)
(* returns false, it does not throw, and forEach goes on.                  *)
(***************************************************************************)
\* forEach ended by the first write that fails, as if write threw
RECURSIVE WriteUntilFailure(_, _, _)
WriteUntilFailure(clients, rec, message) ==
    IF clients = <<>> \/ Head(clients) \in gone THEN rec
    ELSE WriteUntilFailure(Tail(clients),
                           [rec EXCEPT ![Head(clients)] = Append(@, message)],
                           message)

RECURSIVE WriteAll(_, _, _)
WriteAll(clients, rec, message) ==
    IF clients = <<>> THEN rec
    ELSE WriteAll(Tail(clients),
                  IF Head(clients) \in gone THEN rec
                  ELSE [rec EXCEPT ![Head(clients)] = Append(@, message)],
                  message)

\* broadcast that misses the first client of the list
broadcastSkippingFirst(message) ==
    /\ received' = IF sseClients = <<>> THEN received
                   ELSE WriteAll(Tail(sseClients), received, message)
    /\ published' = published + 1

broadcast(message) ==
    /\ received' = WriteAll(sseClients, received, message)
    /\ published' = published + 1

NoBroadcast == UNCHANGED <<received, published>>

(***************************************************************************)
(* POST /api/update-state, part_001 lines 78-113.                          *)
(* A body is [type, entries]: type "object" (a mapping), "array", "null"   *)
(* or "primitive"; entries is Object.entries(body), a sequence of          *)
(* [key, value]; a value is [type, own] with type "object", "null" or      *)
(* "primitive" (a number, a string, an array: no own property the handler  *)
(* reads) and own the own properties of an object.                         *)
(***************************************************************************)
\* lines 89-99: the fields that pass validation
SafeStatus(state) ==
    IF HasProp(state.own, "status")
    THEN [status |-> IF ToLowerCase(Get(state.own, "status")) \in validStatuses
                     THEN Get(state.own, "status")
                     ELSE "offline"]
    ELSE EmptyObject

SafeTasks(state) ==
    IF /\ HasProp(state.own, "tasks")
       /\ Get(state.own, "tasks") >= Num(0)
       /\ Get(state.own, "tasks") <= Num(1000)
    THEN [tasks |-> Get(state.own, "tasks")]
    ELSE EmptyObject

SafeProductivity(state) ==
    IF /\ HasProp(state.own, "productivity")
       /\ Get(state.own, "productivity") >= Num(0)
       /\ Get(state.own, "productivity") <= Num(100)
    THEN [productivity |-> Get(state.own, "productivity")]
    ELSE EmptyObject

SafeState(state) == Spread(Spread(SafeStatus(state), SafeTasks(state)), SafeProductivity(state))

\* lines 86-105: the loop over Object.entries(updates). The result is the store and
\* the prototype flag after the loop, and whether reading state.status threw (state
\* null) and ended the loop
RECURSIVE MergeEntries(_, _, _)
MergeEntries(entries, store, replaced) ==
    IF entries = <<>>
    THEN [agentState |-> store, protoReplaced |-> replaced, threw |-> FALSE]
    ELSE LET name == Head(entries).key
             state == Head(entries).value
         IN  IF ~Truthy(store, name)
             THEN MergeEntries(Tail(entries), store, replaced)
             ELSE IF state.type = "null"
             THEN [agentState |-> store, protoReplaced |-> replaced, threw |-> TRUE]
             ELSE IF name = "__proto__"
             THEN MergeEntries(Tail(entries), store, TRUE)
             ELSE MergeEntries(Tail(entries),
                               With(store, name, Spread(OwnProps(store, name), SafeState(state))),
                               replaced)

\* lines 81-83
InvalidPayload(updates) == updates.type \in {"null", "primitive"}

\* UpdateState publishing the snapshot taken before the merge
UpdateStatePublishingOldState(updates) ==
    /\ steps < MaxSteps
    /\ request' = [op |-> "update-state", body |-> updates]
    /\ steps' = steps + 1
    /\ UNCHANGED <<objProto, fnProps, taskQueue, taskHistory, sseClients, gone, closed,
                   tasksAsString, clock>>
    /\ IF InvalidPayload(updates)
       THEN /\ response' = [status |-> 400, error |-> "Invalid update payload"]
            /\ UNCHANGED <<agentState, protoReplaced>>
            /\ NoBroadcast
       ELSE LET merged == MergeEntries(updates.entries, agentState, protoReplaced)
            IN  /\ agentState' = merged.agentState
                /\ protoReplaced' = merged.protoReplaced
                /\ IF merged.threw
                   THEN /\ response' = [status |-> 500, error |-> "TypeError"]
                        /\ NoBroadcast
                   ELSE /\ broadcast([type |-> "state", agents |-> agentState])
                        /\ response' = [status |-> 200, success |-> TRUE]

UpdateState(updates) ==
    /\ steps < MaxSteps
    /\ request' = [op |-> "update-state", body |-> updates]
    /\ steps' = steps + 1
    /\ UNCHANGED <<objProto, fnProps, taskQueue, taskHistory, sseClients, gone, closed,
                   tasksAsString, clock>>
    /\ IF InvalidPayload(updates)
       THEN /\ response' = [status |-> 400, error |-> "Invalid update payload"]
            /\ UNCHANGED <<agentState, protoReplaced>>
            /\ NoBroadcast
       ELSE LET merged == MergeEntries(updates.entries, agentState, protoReplaced)
            IN  /\ agentState' = merged.agentState
                /\ protoReplaced' = merged.protoReplaced
                /\ IF merged.threw
                   THEN /\ response' = [status |-> 500, error |-> "TypeError"]
                        /\ NoBroadcast
                   ELSE /\ broadcast([type |-> "state", agents |-> merged.agentState])
                        /\ response' = [status |-> 200, success |-> TRUE]

(***************************************************************************)
(* POST /api/task-assigned, part_001 lines 141-158. The body task is an    *)
(* object given by its own properties (id, agent, task).                   *)
(***************************************************************************)
\* NextTasks with the count restarted instead of incremented
NextTasksRestarted(obj) == Num(1)

\* (x.tasks || 0) + 1 for an object with own properties obj
NextTasks(obj) ==
    IF HasProp(obj, "tasks") /\ Get(obj, "tasks") # Num(0)
    THEN Get(obj, "tasks") + Num(1)
    ELSE Num(0) + Num(1)

\* agentState[name].f = v, for a truthy agentState[name]: the assignment lands on
\* the stored record, on the inherited function or on the prototype
\* AssignField storing a new record that holds the one field
AssignFieldReplacingRecord(name, f, v) ==
    CASE Lookup(agentState, name) = "own" ->
            /\ agentState' = [agentState EXCEPT ![name] = With(EmptyObject, f, v)]
            /\ UNCHANGED <<fnProps, objProto>>
      [] Lookup(agentState, name) = "function" ->
            /\ fnProps' = [fnProps EXCEPT ![name] = With(EmptyObject, f, v)]
            /\ UNCHANGED <<agentState, objProto>>
      [] Lookup(agentState, name) = "prototype" ->
            /\ objProto' = IF protoReplaced THEN objProto ELSE With(EmptyObject, f, v)
            /\ UNCHANGED <<agentState, fnProps>>

AssignField(name, f, v) ==
    CASE Lookup(agentState, name) = "own" ->
            /\ agentState' = [agentState EXCEPT ![name] = With(@, f, v)]
            /\ UNCHANGED <<fnProps, objProto>>
      [] Lookup(agentState, name) = "function" ->
            /\ fnProps' = [fnProps EXCEPT ![name] = With(@, f, v)]
            /\ UNCHANGED <<agentState, objProto>>
      [] Lookup(agentState, name) = "prototype" ->
            /\ objProto' = IF protoReplaced THEN objProto ELSE With(objProto, f, v)
            /\ UNCHANGED <<agentState, fnProps>>

\* TaskAssigned with the new record put in front of the history
TaskAssignedUnshifting(task) ==
    /\ steps < MaxSteps
    /\ request' = [op |-> "task-assigned", body |-> task]
    /\ steps' = steps + 1
    /\ taskHistory' = <<task>> \o taskHistory
    /\ taskQueue' = Append(taskQueue, task)
    /\ IF "agent" \in DOMAIN task /\ Truthy(agentState, task.agent)
       THEN AssignField(task.agent, "tasks", NextTasks(OwnProps(agentState, task.agent)))
       ELSE UNCHANGED <<agentState, fnProps, objProto>>
    /\ broadcast([type |-> "task_assigned", task |-> task, agents |-> agentState'])
    /\ response' = [status |-> 200, success |-> TRUE]
    /\ UNCHANGED <<protoReplaced, sseClients, gone, closed, tasksAsString, clock>>

TaskAssigned(task) ==
    /\ steps < MaxSteps
    /\ request' = [op |-> "task-assigned", body |-> task]
    /\ steps' = steps + 1
    /\ taskHistory' = Append(taskHistory, task)
    /\ taskQueue' = Append(taskQueue, task)
    /\ IF "agent" \in DOMAIN task /\ Truthy(agentState, task.agent)
       THEN AssignField(task.agent, "tasks", NextTasks(OwnProps(agentState, task.agent)))
       ELSE UNCHANGED <<agentState, fnProps, objProto>>
    /\ broadcast([type |-> "task_assigned", task |-> task, agents |-> agentState'])
    /\ response' = [status |-> 200, success |-> TRUE]
    /\ UNCHANGED <<protoReplaced, sseClients, gone, closed, tasksAsString, clock>>

(***************************************************************************)
(* POST /api/agent-status, part_001 lines 161-189. The body is             *)
(* [agent, status], each a string or NotAString (missing, a number, ...).  *)
(***************************************************************************)
AgentStatus(body) ==
    LET agent == validateInput(body.agent, 50)
        status == validateInput(body.status, 50)
    IN  /\ steps < MaxSteps
        /\ request' = [op |-> "agent-status", body |-> body]
        /\ steps' = steps + 1
        /\ UNCHANGED <<protoReplaced, taskQueue, taskHistory, sseClients, gone, closed,
                       tasksAsString, clock>>
        /\ IF Falsy(agent) \/ Falsy(status)
           THEN /\ response' = [status |-> 400, error |-> "Invalid agent or status"]
                /\ UNCHANGED <<agentState, fnProps, objProto>>
                /\ NoBroadcast
           ELSE IF ~Truthy(agentState, agent)
           THEN /\ response' = [status |-> 404, error |-> "Agent not found"]
                /\ UNCHANGED <<agentState, fnProps, objProto>>
                /\ NoBroadcast
           ELSE IF ToLowerCase(status) \notin validStatuses
           THEN /\ response' = [status |-> 400, error |-> "Invalid status value"]
                /\ UNCHANGED <<agentState, fnProps, objProto>>
                /\ NoBroadcast
           ELSE /\ AssignField(agent, "status", status)
                /\ broadcast([type |-> "status_update", agent |-> agent, status |-> status,
                              agents |-> agentState'])
                /\ response' = [status |-> 200, success |-> TRUE]

(***************************************************************************)
(* POST /api/assign-task, part_001 lines 136-138: disabled.                *)
(***************************************************************************)
\* AssignTask as the enabled endpoint of server.js: the task is logged and published
AssignTaskEnabled(body) ==
    /\ steps < MaxSteps
    /\ request' = [op |-> "assign-task", body |-> body]
    /\ steps' = steps + 1
    /\ taskQueue' = Append(taskQueue, body)
    /\ taskHistory' = Append(taskHistory, body)
    /\ broadcast([type |-> "task_assigned", task |-> body, agents |-> agentState])
    /\ response' = [status |-> 200, success |-> TRUE]
    /\ UNCHANGED <<agentState, protoReplaced, objProto, fnProps, sseClients, gone, closed,
                   tasksAsString, clock>>

AssignTask(body) ==
    /\ steps < MaxSteps
    /\ request' = [op |-> "assign-task", body |-> body]
    /\ steps' = steps + 1
    /\ response' = [status |-> 403, error |-> "This endpoint is disabled for security reasons"]
    /\ NoBroadcast
    /\ UNCHANGED <<agentState, protoReplaced, objProto, fnProps, taskQueue, taskHistory,
                   sseClients, gone, closed, tasksAsString, clock>>

(***************************************************************************)
(* GET /api/events, part_001 lines 116-132. A handle is the number of the  *)
(* connection; the handler pushes it and writes the initial state to it.   *)
(***************************************************************************)
Handles == DOMAIN received

\* Events with the snapshot taken at startup instead of at the time of the request
EventsStaleSnapshot ==
    LET res == Cardinality(DOMAIN received) + 1
    IN  /\ res <= MaxClients
        /\ sseClients' = Append(sseClients, res)
        /\ received' = [h \in DOMAIN received \cup {res} |->
                           IF h = res THEN <<[type |-> "state", agents |-> InitialAgentState]>>
                           ELSE received[h]]
        /\ request' = [op |-> "events", res |-> res]
        /\ response' = [status |-> 200, stream |-> res]
        /\ UNCHANGED <<agentState, protoReplaced, objProto, fnProps, taskQueue, taskHistory,
                       gone, closed, published, steps, tasksAsString, clock>>

\* Events pushing the handle a second time
EventsPushTwice ==
    LET res == Cardinality(DOMAIN received) + 1
    IN  /\ res <= MaxClients
        /\ sseClients' = Append(Append(sseClients, res), res)
        /\ received' = [h \in DOMAIN received \cup {res} |->
                           IF h = res THEN <<[type |-> "state", agents |-> agentState]>>
                           ELSE received[h]]
        /\ request' = [op |-> "events", res |-> res]
        /\ response' = [status |-> 200, stream |-> res]
        /\ UNCHANGED <<agentState, protoReplaced, objProto, fnProps, taskQueue, taskHistory,
                       gone, closed, published, steps, tasksAsString, clock>>

Events ==
    LET res == Cardinality(Handles) + 1
    IN  /\ res <= MaxClients
        /\ sseClients' = Append(sseClients, res)
        /\ received' = [h \in Handles \cup {res} |->
                           IF h = res THEN <<[type |-> "state", agents |-> agentState]>>
                           ELSE received[h]]
        /\ request' = [op |-> "events", res |-> res]
        /\ response' = [status |-> 200, stream |-> res]
        /\ UNCHANGED <<agentState, protoReplaced, objProto, fnProps, taskQueue, taskHistory,
                       gone, closed, published, steps, tasksAsString, clock>>

\* sseClients.indexOf(res): 0 stands for -1
IndexOf(seq, x) ==
    IF x \in Range(seq) THEN CHOOSE i \in DOMAIN seq : seq[i] = x /\ \A j \in 1..(i-1) : seq[j] # x
    ELSE 0

\* sseClients.splice(index, 1)
Splice(seq, index) == SubSeq(seq, 1, index - 1) \o SubSeq(seq, index + 1, Len(seq))

\* the number of 'close' events the request of handle res has emitted
CloseCount(res) == IF res \in DOMAIN closed THEN closed[res] ELSE 0

\* the connection of a client of the list is lost; its 'close' event is still to come
Disconnect(res) ==
    /\ res \in Range(sseClients) \ gone
    /\ gone' = gone \cup {res}
    /\ request' = [op |-> "disconnect", res |-> res]
    /\ UNCHANGED <<agentState, protoReplaced, objProto, fnProps, taskQueue, taskHistory,
                   sseClients, received, closed, published, response, steps,
                   tasksAsString, clock>>

\* Close removing the oldest client of the list (shift) instead of its own
CloseRemovingFirst(res) ==
    /\ res \in Handles
    /\ CloseCount(res) < MaxCloses
    /\ closed' = With(closed, res, CloseCount(res) + 1)
    /\ gone' = gone \ {res}
    /\ sseClients' = IF sseClients = <<>> THEN sseClients ELSE Tail(sseClients)
    /\ request' = [op |-> "close", res |-> res]
    /\ UNCHANGED <<agentState, protoReplaced, objProto, fnProps, taskQueue, taskHistory,
                   received, published, response, steps, tasksAsString, clock>>

\* Close with the splice done whatever indexOf returned: splice(-1, 1) removes the
\* last element
CloseWithoutIndexCheck(res) ==
    /\ res \in Handles
    /\ CloseCount(res) < MaxCloses
    /\ closed' = With(closed, res, CloseCount(res) + 1)
    /\ gone' = gone \ {res}
    /\ sseClients' = IF IndexOf(sseClients, res) > 0
                     THEN Splice(sseClients, IndexOf(sseClients, res))
                     ELSE SubSeq(sseClients, 1, Len(sseClients) - 1)
    /\ request' = [op |-> "close", res |-> res]
    /\ UNCHANGED <<agentState, protoReplaced, objProto, fnProps, taskQueue, taskHistory,
                   received, published, response, steps, tasksAsString, clock>>

\* req.on('close'), lines 126-131
Close(res) ==
    /\ res \in Handles
    /\ CloseCount(res) < MaxCloses
    /\ closed' = With(closed, res, CloseCount(res) + 1)
    /\ gone' = gone \ {res}
    /\ sseClients' = IF IndexOf(sseClients, res) > 0
                     THEN Splice(sseClients, IndexOf(sseClients, res))
                     ELSE sseClients
    /\ request' = [op |-> "close", res |-> res]
    /\ UNCHANGED <<agentState, protoReplaced, objProto, fnProps, taskQueue, taskHistory,
                   received, published, response, steps, tasksAsString, clock>>

(***************************************************************************)
(* Request bodies.                                                         *)
(***************************************************************************)
\* every object whose own properties are some of the fields, with values drawn
\* from the given sets
ObjectsOver(S, T, P) ==
    {Spread(Spread(s, t), p) :
        s \in {EmptyObject} \cup {[status |-> x] : x \in S},
        t \in {EmptyObject} \cup {[tasks |-> x] : x \in T},
        p \in {EmptyObject} \cup {[productivity |-> x] : x \in P}}

ValuesOver(objects) ==
    {[type |-> "object", own |-> o] : o \in objects}
        \cup {[type |-> "null", own |-> EmptyObject], [type |-> "primitive", own |-> EmptyObject]}

\* the key sequences of a mapping with at least lo keys: at most MaxKeys keys, no
\* key twice
KeySeqs(keys, lo) ==
    {ks \in UNION {[1..n -> keys] : n \in lo..MaxKeys} :
        \A i, j \in DOMAIN ks : i # j => ks[i] # ks[j]}

\* the mappings with these key sequences and values
MappingsOver(keySeqs, values) ==
    {[type |-> "object", entries |-> [i \in DOMAIN ks |-> [key |-> ks[i], value |-> vs[i]]]] :
        <<ks, vs>> \in UNION {{<<ks, vs>> : vs \in [DOMAIN ks -> values]} : ks \in keySeqs}}

\* arrays: Object.entries gives the index keys "0", "1", ...
ArraysOver(values) ==
    {[type |-> "array", entries |-> <<>>]}
        \cup {[type |-> "array", entries |-> <<[key |-> "0", value |-> v]>>] : v \in values}

NonObjects == {[type |-> "null", entries |-> <<>>], [type |-> "primitive", entries |-> <<>>]}

UpdateKeys == {"Botthew", "DevBot", "Ghost", "constructor", "__proto__"}

StatusInputs == {"busy", "ONLINE", "working"}
TasksInputs == {Num(3), Frac(2, 5), Num(-1), Num(1001)}
ProductivityInputs == {Num(50), Num(150)}

\* the values one agent ("Botthew") is updated with
UpdateValues == ValuesOver(ObjectsOver(StatusInputs, TasksInputs, ProductivityInputs))

\* the values the other keys, and the keys of mappings with several keys, come with
BusyValue == [type |-> "object", own |-> [status |-> "busy", productivity |-> Num(150)]]
NullValue == [type |-> "null", own |-> EmptyObject]
FewValues == {BusyValue, NullValue}

UpdateBodies ==
    MappingsOver({<<"Botthew">>}, UpdateValues)
        \cup MappingsOver({<<k>> : k \in UpdateKeys \ {"Botthew"}},
                          FewValues \cup {[type |-> "object", own |-> [tasks |-> Num(3)]]})
        \cup MappingsOver({<<>>} \cup KeySeqs({"Botthew", "DevBot", "Ghost"}, 2), FewValues)
        \cup ArraysOver(FewValues)
        \cup NonObjects

AgentNames == {"DevBot", "Ghost", "constructor", "__proto__", " DevBot ", "Dev<Bot", "",
               LongString, NotAString}

StatusBodies == [agent : AgentNames, status : {"Busy", " Idle ", "working", NotAString}]

TaskBodies ==
    {[id |-> 1, task |-> "deploy"]}
        \cup {[id |-> 1, agent |-> a, task |-> "deploy"] : a \in UpdateKeys}

AssignBodies == {[agent |-> "DevBot", task |-> "deploy"], [agent |-> "Ghost", task |-> ""],
                 EmptyObject}

(***************************************************************************)
(* The server without clients connected to /api/events.                    *)
(***************************************************************************)
Init ==
    /\ agentState = InitialAgentState
    /\ protoReplaced = FALSE
    /\ objProto = EmptyObject
    /\ fnProps = [n \in InheritedFunctions |-> EmptyObject]
    /\ taskQueue = <<>>
    /\ taskHistory = <<>>
    /\ sseClients = <<>>
    /\ received = <<>>
    /\ gone = {}
    /\ closed = <<>>
    /\ published = 0
    /\ request = [op |-> "none"]
    /\ response = [status |-> 0]
    /\ steps = 0
    /\ tasksAsString = {}
    /\ clock = 0
    /\ manager = [posts |-> <<>>, interval |-> FALSE, exited |-> FALSE]

Next ==
    \/ \E updates \in UpdateBodies : UpdateState(updates) /\ UNCHANGED manager
    \/ \E task \in TaskBodies : TaskAssigned(task) /\ UNCHANGED manager
    \/ \E body \in StatusBodies : AgentStatus(body) /\ UNCHANGED manager
    \/ \E body \in AssignBodies : AssignTask(body) /\ UNCHANGED manager

Spec == Init /\ [][Next]_vars

(***************************************************************************)
(* The server with clients connecting to and disconnecting from            *)
(* /api/events, under fewer request bodies.                                *)
(***************************************************************************)
HubUpdateBodies ==
    MappingsOver({<<>>, <<"DevBot">>, <<"Ghost", "DevBot">>}, FewValues)
        \cup ArraysOver({BusyValue})
        \cup NonObjects

HubStatusBodies ==
    [agent : {"DevBot", "constructor"}, status : {"Busy"}]
        \cup {[agent |-> "DevBot", status |-> "working"], [agent |-> "Ghost", status |-> "Busy"]}

HubTaskBodies ==
    {[id |-> 1, task |-> "deploy"]}
        \cup {[id |-> 1, agent |-> a, task |-> "deploy"] : a \in {"DevBot", "Ghost"}}

NextHub ==
    \/ \E updates \in HubUpdateBodies : UpdateState(updates) /\ UNCHANGED manager
    \/ \E task \in HubTaskBodies : TaskAssigned(task) /\ UNCHANGED manager
    \/ \E body \in HubStatusBodies : AgentStatus(body) /\ UNCHANGED manager
    \/ \E body \in AssignBodies : AssignTask(body) /\ UNCHANGED manager
    \/ Events /\ UNCHANGED manager
    \/ \E res \in Handles : CloseCount(res) = 0 /\ Close(res) /\ UNCHANGED manager

SpecHub == Init /\ [][NextHub]_vars

(***************************************************************************)
(* The server with clients whose connection is lost some time before their *)
(* 'close' handler runs, and with 'close' handled more than once.         *)
(***************************************************************************)
ConnUpdateBodies == MappingsOver({<<"DevBot">>}, {BusyValue})

ConnStatusBodies == [agent : {"DevBot"}, status : {"Busy"}]

NextConn ==
    \/ \E updates \in ConnUpdateBodies : UpdateState(updates) /\ UNCHANGED manager
    \/ \E body \in ConnStatusBodies : AgentStatus(body) /\ UNCHANGED manager
    \/ Events /\ UNCHANGED manager
    \/ \E res \in Handles : Disconnect(res) /\ UNCHANGED manager
    \/ \E res \in Handles : Close(res) /\ UNCHANGED manager

SpecConn == Init /\ [][NextConn]_vars

(***************************************************************************)
(* The server without input validation, src/server.js lines 137-394: its   *)
(* /api/update-state merges whatever the body holds, /api/assign-task is   *)
(* enabled and /api/agent-status takes any status. GET /api/events is that *)
(* of the server above.                                                    *)
(*                                                                         *)
(* A tasks value that is a string of digits is held as the number the      *)
(* digits read, with the name of the record in tasksAsString.              *)
(***************************************************************************)
OpenInitialAgentState ==
    [a \in KnownAgents |->
        CASE a = "Botthew" -> [status |-> "online", tasks |-> Num(12), productivity |-> Num(85)]
          [] a = "DevBot" -> [status |-> "online", tasks |-> Num(5), productivity |-> Num(92)]
          [] a = "ResearchBot" -> [status |-> "online", tasks |-> Num(3), productivity |-> Num(88)]
          [] a = "WriterBot" -> [status |-> "online", tasks |-> Num(7), productivity |-> Num(78)]
          [] a = "DesignBot" -> [status |-> "online", tasks |-> Num(8), productivity |-> Num(95)]
          [] a = "DebugBot" -> [status |-> "online", tasks |-> Num(4), productivity |-> Num(81)]
          [] a = "OpsBot" -> [status |-> "online", tasks |-> Num(6), productivity |-> Num(87)]
          [] a = "DataBot" -> [status |-> "online", tasks |-> Num(2), productivity |-> Num(90)]
          [] a = "SecurityBot" -> [status |-> "online", tasks |-> Num(9), productivity |-> Num(93)]]

\* !body.f for a body whose fields are strings: a missing field and "" are falsy
Missing(body, f) == f \notin DOMAIN body \/ body[f] = ""

\* ...agentState[name]: the own enumerable properties, none for undefined
SpreadOf(store, name) ==
    IF Truthy(store, name) THEN OwnProps(store, name) ELSE EmptyObject

\* lines 204-209: the loop over Object.entries(updates); a value is
\* [type, own, strings], strings the fields of own whose value is a string of digits
RECURSIVE OpenMergeEntries(_, _, _, _)
OpenMergeEntries(entries, store, replaced, strs) ==
    IF entries = <<>>
    THEN [agentState |-> store, protoReplaced |-> replaced, tasksAsString |-> strs]
    ELSE LET name == Head(entries).key
             state == Head(entries).value
         IN  IF name = "__proto__"
             THEN OpenMergeEntries(Tail(entries), store, TRUE, strs)
             ELSE OpenMergeEntries(Tail(entries),
                                   With(store, name, Spread(SpreadOf(store, name), state.own)),
                                   replaced,
                                   IF "tasks" \in DOMAIN state.own
                                   THEN IF "tasks" \in state.strings
                                        THEN strs \cup {name} ELSE strs \ {name}
                                   ELSE strs)

\* POST /api/update-state, lines 201-217
OpenUpdateState(updates) ==
    LET merged == OpenMergeEntries(updates.entries, agentState, protoReplaced, tasksAsString)
    IN  /\ steps < MaxSteps
        /\ request' = [op |-> "update-state", body |-> updates]
        /\ steps' = steps + 1
        /\ agentState' = merged.agentState
        /\ protoReplaced' = merged.protoReplaced
        /\ tasksAsString' = merged.tasksAsString
        /\ broadcast([type |-> "state", agents |-> merged.agentState])
        /\ response' = [status |-> 200, success |-> TRUE]
        /\ UNCHANGED <<objProto, fnProps, taskQueue, taskHistory, sseClients, gone, closed,
                       clock>>

\* (agentState[name].tasks || 0) + 1: for a string of digits, + appends "1"
OpenNextTasks(name) ==
    IF name \in tasksAsString
    THEN agentState[name].tasks * 10 + Num(1)
    ELSE NextTasks(OwnProps(agentState, name))

\* OpenAssignTask with the record pushed to the history only
OpenAssignTaskHistoryOnly(body) ==
    /\ steps < MaxSteps
    /\ request' = [op |-> "assign-task", body |-> body]
    /\ steps' = steps + 1
    /\ UNCHANGED <<protoReplaced, sseClients, gone, closed, tasksAsString>>
    /\ IF Missing(body, "agent") \/ Missing(body, "task")
       THEN /\ response' = [status |-> 400, error |-> "Missing agent or task"]
            /\ UNCHANGED <<agentState, fnProps, objProto, taskQueue, taskHistory, clock>>
            /\ NoBroadcast
       ELSE IF ~Truthy(agentState, body.agent)
       THEN /\ response' = [status |-> 404, error |-> "Agent not found"]
            /\ UNCHANGED <<agentState, fnProps, objProto, taskQueue, taskHistory, clock>>
            /\ NoBroadcast
       ELSE \E now \in {clock, clock + 1} :
            LET taskEntry == [id |-> now, agent |-> body.agent, task |-> body.task,
                              timestamp |-> now, status |-> "assigned"]
            IN  /\ clock' = now
                /\ taskQueue' = taskQueue
                /\ taskHistory' = Append(taskHistory, taskEntry)
                /\ AssignField(body.agent, "tasks", OpenNextTasks(body.agent))
                /\ broadcast([type |-> "task_assigned", task |-> taskEntry,
                              agents |-> agentState'])
                /\ response' = [status |-> 200, success |-> TRUE, task |-> taskEntry]

\* POST /api/assign-task, lines 239-270; Date.now() gives the time of the last
\* reading or a later one
OpenAssignTask(body) ==
    /\ steps < MaxSteps
    /\ request' = [op |-> "assign-task", body |-> body]
    /\ steps' = steps + 1
    /\ UNCHANGED <<protoReplaced, sseClients, gone, closed, tasksAsString>>
    /\ IF Missing(body, "agent") \/ Missing(body, "task")
       THEN /\ response' = [status |-> 400, error |-> "Missing agent or task"]
            /\ UNCHANGED <<agentState, fnProps, objProto, taskQueue, taskHistory, clock>>
            /\ NoBroadcast
       ELSE IF ~Truthy(agentState, body.agent)
       THEN /\ response' = [status |-> 404, error |-> "Agent not found"]
            /\ UNCHANGED <<agentState, fnProps, objProto, taskQueue, taskHistory, clock>>
            /\ NoBroadcast
       ELSE \E now \in {clock, clock + 1} :
            LET taskEntry == [id |-> now, agent |-> body.agent, task |-> body.task,
                              timestamp |-> now, status |-> "assigned"]
            IN  /\ clock' = now
                /\ taskQueue' = Append(taskQueue, taskEntry)
                /\ taskHistory' = Append(taskHistory, taskEntry)
                /\ AssignField(body.agent, "tasks", OpenNextTasks(body.agent))
                /\ broadcast([type |-> "task_assigned", task |-> taskEntry,
                              agents |-> agentState'])
                /\ response' = [status |-> 200, success |-> TRUE, task |-> taskEntry]

\* POST /api/task-assigned, lines 273-290
OpenTaskAssigned(task) ==
    /\ steps < MaxSteps
    /\ request' = [op |-> "task-assigned", body |-> task]
    /\ steps' = steps + 1
    /\ taskHistory' = Append(taskHistory, task)
    /\ taskQueue' = Append(taskQueue, task)
    /\ IF "agent" \in DOMAIN task /\ Truthy(agentState, task.agent)
       THEN AssignField(task.agent, "tasks", OpenNextTasks(task.agent))
       ELSE UNCHANGED <<agentState, fnProps, objProto>>
    /\ broadcast([type |-> "task_assigned", task |-> task, agents |-> agentState'])
    /\ response' = [status |-> 200, success |-> TRUE]
    /\ UNCHANGED <<protoReplaced, sseClients, gone, closed, tasksAsString, clock>>

\* POST /api/agent-status, lines 293-314
OpenAgentStatus(body) ==
    /\ steps < MaxSteps
    /\ request' = [op |-> "agent-status", body |-> body]
    /\ steps' = steps + 1
    /\ UNCHANGED <<protoReplaced, taskQueue, taskHistory, sseClients, gone, closed,
                   tasksAsString, clock>>
    /\ IF Missing(body, "agent") \/ Missing(body, "status")
       THEN /\ response' = [status |-> 400, error |-> "Missing agent or status"]
            /\ UNCHANGED <<agentState, fnProps, objProto>>
            /\ NoBroadcast
       ELSE IF ~Truthy(agentState, body.agent)
       THEN /\ response' = [status |-> 404, error |-> "Agent not found"]
            /\ UNCHANGED <<agentState, fnProps, objProto>>
            /\ NoBroadcast
       ELSE /\ AssignField(body.agent, "status", body.status)
            /\ broadcast([type |-> "status_update", agent |-> body.agent,
                          status |-> body.status, agents |-> agentState'])
            /\ response' = [status |-> 200, success |-> TRUE]

\* the values of the keys of an update-state body: objects with a status outside
\* the enumeration, with a number or with the string "5" as tasks, and null
OpenValues ==
    {[type |-> "object", own |-> [status |-> "working"], strings |-> {}],
     [type |-> "object", own |-> [tasks |-> Num(3)], strings |-> {}],
     [type |-> "object", own |-> [tasks |-> Num(5)], strings |-> {"tasks"}],
     [type |-> "null", own |-> EmptyObject, strings |-> {}]}

OpenUpdateBodies == MappingsOver({<<"DevBot">>, <<"Ghost">>}, OpenValues)

OpenAssignBodies ==
    [agent : {"DevBot", "Ghost"}, task : {"deploy", ""}] \cup {[task |-> "deploy"]}

OpenTaskBodies ==
    {[id |-> 1, agent |-> "DevBot", task |-> "deploy"],
     [id |-> 1, agent |-> "Ghost", task |-> ""],
     [id |-> 1, task |-> "deploy"]}

OpenStatusBodies ==
    [agent : {"DevBot", "Ghost"}, status : {"busy", "working"}] \cup {[agent |-> "DevBot"]}

InitOpen ==
    /\ agentState = OpenInitialAgentState
    /\ protoReplaced = FALSE
    /\ objProto = EmptyObject
    /\ fnProps = [n \in InheritedFunctions |-> EmptyObject]
    /\ taskQueue = <<>>
    /\ taskHistory = <<>>
    /\ sseClients = <<>>
    /\ received = <<>>
    /\ gone = {}
    /\ closed = <<>>
    /\ published = 0
    /\ request = [op |-> "none"]
    /\ response = [status |-> 0]
    /\ steps = 0
    /\ tasksAsString = {}
    /\ clock = 0
    /\ manager = [posts |-> <<>>, interval |-> FALSE, exited |-> FALSE]

NextOpen ==
    \/ \E updates \in OpenUpdateBodies : OpenUpdateState(updates) /\ UNCHANGED manager
    \/ \E body \in OpenAssignBodies : OpenAssignTask(body) /\ UNCHANGED manager
    \/ \E task \in OpenTaskBodies : OpenTaskAssigned(task) /\ UNCHANGED manager
    \/ \E body \in OpenStatusBodies : OpenAgentStatus(body) /\ UNCHANGED manager
    \/ Events /\ UNCHANGED manager

SpecOpen == InitOpen /\ [][NextOpen]_vars

(***************************************************************************)
(* The sync scripts: src/sync-agent.js and the two sync-cron.js of         *)
(* src/unnamed/part_000 (lines 1-244 and 246-433). Each run reads the      *)
(* recent sessions, builds one body and posts it to /api/update-state.     *)
(* An emoji or a Greek letter is written as its name; sessions maps the    *)
(* agents with a recent transcript to [messages, tokens].                  *)
(***************************************************************************)
\* Object.entries order of AGENT_ROLES (sync-agent.js 16-26) and of AGENTS of the
\* second sync-cron (part_000 263-273)
AGENT_ROLES ==
    <<"DevBot", "ResearchBot", "WriterBot", "DesignBot", "DebugBot", "OpsBot", "DataBot",
      "SecurityBot", "Botthew">>

\* Object.entries order of AGENTS of the first sync-cron (part_000 22-32)
AGENTS ==
    <<"Botthew", "DevBot", "ResearchBot", "WriterBot", "DesignBot", "DebugBot", "OpsBot",
      "DataBot", "SecurityBot">>

AgentEmoji ==
    [Botthew |-> "robot", DevBot |-> "technologist", ResearchBot |-> "magnifier",
     WriterBot |-> "writing hand", DesignBot |-> "palette", DebugBot |-> "detective",
     OpsBot |-> "gear", DataBot |-> "bar chart", SecurityBot |-> "shield"]

AgentRole ==
    [Botthew |-> "Lead Assistant", DevBot |-> "Lead Developer",
     ResearchBot |-> "Chief Investigator", WriterBot |-> "Content Strategist",
     DesignBot |-> "Creative Director", DebugBot |-> "Systems Detective",
     OpsBot |-> "Operations Lead", DataBot |-> "Data Analyst",
     SecurityBot |-> "Security Analyst"]

AgentGreek ==
    [Botthew |-> "Omega", DevBot |-> "Alpha", ResearchBot |-> "Gamma", WriterBot |-> "Delta",
     DesignBot |-> "Epsilon", DebugBot |-> "Zeta", OpsBot |-> "Eta", DataBot |-> "Theta",
     SecurityBot |-> "Iota"]

GREEK_COLORS ==
    [Omega |-> "#ffd700", Alpha |-> "#00ff88", Gamma |-> "#ff6b6b", Delta |-> "#4ecdc4",
     Epsilon |-> "#a855f7", Zeta |-> "#ef4444", Eta |-> "#f59e0b", Theta |-> "#06b6d4",
     Iota |-> "#22c55e"]

getColor(name) == GREEK_COLORS[AgentGreek[name]]

getAgentColor(name) ==
    [Botthew |-> "#00d9ff", DevBot |-> "#00ff88", ResearchBot |-> "#ffaa00",
     WriterBot |-> "#ff6b9d", DesignBot |-> "#a855f7", DebugBot |-> "#ef4444",
     OpsBot |-> "#f59e0b", DataBot |-> "#06b6d4", SecurityBot |-> "#22c55e"][name]

Min(a, b) == IF a < b THEN a ELSE b

\* isActive: the agent has a session (a session counts at least one message)
IsActive(sessions, name) == name \in DOMAIN sessions /\ sessions[name].messages > 0

\* sync-agent.js 162-173, with random the value of Math.floor(Math.random() * 30) + 50
calculateProductivity(sessions, name, random) ==
    IF ~IsActive(sessions, name)
    THEN random
    ELSE Min(100, (120000 + Min(50000, sessions[name].messages * 1000)
                          + Min(30000, sessions[name].tokens * 2)) \div 2000)

\* part_000 152-154 and 368-370
CronProductivity(sessions, name, random) ==
    IF ~IsActive(sessions, name)
    THEN random
    ELSE Min(100, 60 + sessions[name].messages * 2 + sessions[name].tokens \div 100)

Messages(sessions, name) == IF name \in DOMAIN sessions THEN sessions[name].messages ELSE 0
Tokens(sessions, name) == IF name \in DOMAIN sessions THEN sessions[name].tokens ELSE 0

\* sync-agent.js 115-137
AgentBuildState(sessions, random) ==
    [type    |-> "object",
     entries |-> [i \in DOMAIN AGENT_ROLES |->
        LET name == AGENT_ROLES[i]
        IN  [key   |-> name,
             value |-> [type |-> "object",
                        own  |-> [name |-> name,
                                  emoji |-> AgentEmoji[name],
                                  role |-> AgentRole[name],
                                  color |-> getAgentColor(name),
                                  status |-> IF IsActive(sessions, name)
                                             THEN "online" ELSE "idle",
                                  activeMinutes |-> Num(0),
                                  messages |-> Num(Messages(sessions, name)),
                                  tokens |-> Num(Tokens(sessions, name)),
                                  productivity |->
                                      Num(calculateProductivity(sessions, name,
                                                                random[name]))]]]]]

\* part_000 167, for the sessions of at most two messages used here
CurrentTask(sessions, name) ==
    IF ~IsActive(sessions, name) THEN "Waiting for assignments..."
    ELSE IF sessions[name].messages > 1 THEN "Processing 2 tasks"
    ELSE "Processing 1 task"

\* part_000 144-169: the per-agent part of the first sync-cron's state, for a
\* first file changed within the last minute
Cron1Agents(sessions, random) ==
    [name \in Range(AGENTS) |->
        [name |-> name,
         emoji |-> AgentEmoji[name],
         role |-> AgentRole[name],
         greek |-> AgentGreek[name],
         color |-> getColor(name),
         status |-> IF IsActive(sessions, name) THEN "working" ELSE "idle",
         tasks |-> Num(Messages(sessions, name)),
         tokens |-> Num(Tokens(sessions, name)),
         productivity |-> Num(CronProductivity(sessions, name, random[name])),
         lastActive |-> IF IsActive(sessions, name) THEN "0m ago" ELSE Null,
         currentTask |-> CurrentTask(sessions, name)]]

RECURSIVE SumOver(_, _)
SumOver(f, S) ==
    IF S = {} THEN 0
    ELSE LET x == CHOOSE y \in S : TRUE IN f[x] + SumOver(f, S \ {x})

\* part_000 139-185: the first sync-cron wraps the agents and adds the statistics
Cron1BuildState(sessions, random) ==
    LET state == Cron1Agents(sessions, random)
        names == DOMAIN state
    IN  [type    |-> "object",
         entries |->
            <<[key   |-> "agents",
               value |-> [type |-> "object", own |-> state]],
              [key   |-> "stats",
               value |-> [type |-> "object",
                          own  |-> [activeAgents |->
                                        Cardinality({n \in names :
                                                        state[n].status = "working"}),
                                    totalTasks |->
                                        SumOver([n \in names |-> state[n].tasks], names),
                                    totalTokens |->
                                        SumOver([n \in names |-> state[n].tokens], names),
                                    avgProductivity |->
                                        Num((2 * (SumOver([n \in names |->
                                                              state[n].productivity],
                                                          names) \div 10)
                                             + Cardinality(names))
                                            \div (2 * Cardinality(names))),
                                    updatedAt |-> "now"]]]>>]

\* part_000 351-375
Cron2BuildState(sessions, random) ==
    [type    |-> "object",
     entries |-> [i \in DOMAIN AGENT_ROLES |->
        LET name == AGENT_ROLES[i]
        IN  [key   |-> name,
             value |-> [type |-> "object",
                        own  |-> [name |-> name,
                                  emoji |-> AgentEmoji[name],
                                  role |-> AgentRole[name],
                                  color |-> getAgentColor(name),
                                  status |-> IF IsActive(sessions, name)
                                             THEN "online" ELSE "idle",
                                  tasks |-> Num(Messages(sessions, name)),
                                  tokens |-> Num(Tokens(sessions, name)),
                                  productivity |->
                                      Num(CronProductivity(sessions, name,
                                                           random[name]))]]]]]

\* one run of sync-agent.js: inferAgentName never answers Botthew
SyncAgent(sessions, random) ==
    /\ "Botthew" \notin DOMAIN sessions
    /\ UpdateState(AgentBuildState(sessions, random))

\* one run of the first sync-cron.js. statSync is given the bare file name of the
\* session's first file (148): where that file is not found from the working
\* directory the run throws before it posts anything, which changes no state
SyncCron1(sessions, random, statFound) ==
    /\ statFound \/ DOMAIN sessions = {}
    /\ UpdateState(Cron1BuildState(sessions, random))

\* one run of the second sync-cron.js
SyncCron2(sessions, random) == UpdateState(Cron2BuildState(sessions, random))

\* the recent sessions of a run
Session(m, t) == [messages |-> m, tokens |-> t]
SyncSessions ==
    {[a \in {} |-> Session(1, 0)],
     [a \in {"DevBot"} |-> Session(1, 0)],
     [a \in {"DevBot", "OpsBot"} |-> Session(2, 1000)],
     [a \in {"Botthew"} |-> Session(1, 0)],
     [a \in {"Botthew", "SecurityBot"} |-> Session(2, 1000)]}

\* the values of Math.floor(Math.random() * 30) + 50 in one run
RandomDraws ==
    {[a \in KnownAgents |-> 50],
     [a \in KnownAgents |-> IF a = "DevBot" THEN 50 ELSE 79]}

NextSync ==
    \/ \E sessions \in SyncSessions, random \in RandomDraws : SyncAgent(sessions, random) /\ UNCHANGED manager
    \/ \E sessions \in SyncSessions, random \in RandomDraws, statFound \in BOOLEAN :
            SyncCron1(sessions, random, statFound) /\ UNCHANGED manager
    \/ \E sessions \in SyncSessions, random \in RandomDraws : SyncCron2(sessions, random) /\ UNCHANGED manager
    \/ \E body \in ConnStatusBodies : AgentStatus(body) /\ UNCHANGED manager

SpecSync == Init /\ [][NextSync]_vars

(***************************************************************************)
(* The read routes of the server, part_001 lines 66-75 and 192-199.        *)
(***************************************************************************)
\* agentInfo, lines 38-48
agentInfo ==
    [a \in KnownAgents |->
        [role |-> AgentRole[a], emoji |-> AgentEmoji[a], color |-> getAgentColor(a)]]

\* what ...agentInfo[name] spreads (line 71): the own enumerable properties of
\* agentInfo[name], which for a name agentInfo only inherits is a function of
\* Object.prototype or Object.prototype itself, and nothing for undefined
InfoProps(name) ==
    IF name \in DOMAIN agentInfo THEN agentInfo[name]
    ELSE IF name \in InheritedFunctions THEN fnProps[name]
    ELSE IF name = "__proto__" THEN objProto
    ELSE EmptyObject

\* GET /api/agents, lines 66-75
GetAgents ==
    /\ request' = [op |-> "agents"]
    /\ response' = [status |-> 200,
                    body |-> [name \in DOMAIN agentState |->
                                 Spread(agentState[name], InfoProps(name))]]
    /\ UNCHANGED <<agentState, protoReplaced, objProto, fnProps, taskQueue, taskHistory,
                   sseClients, received, gone, closed, published, steps, tasksAsString,
                   clock>>

\* GET /api/task-history, lines 192-194
GetTaskHistory ==
    /\ request' = [op |-> "task-history"]
    /\ response' = [status |-> 200, body |-> taskHistory]
    /\ UNCHANGED <<agentState, protoReplaced, objProto, fnProps, taskQueue, taskHistory,
                   sseClients, received, gone, closed, published, steps, tasksAsString,
                   clock>>

\* GET /api/task-queue, lines 197-199
GetTaskQueue ==
    /\ request' = [op |-> "task-queue"]
    /\ response' = [status |-> 200, body |-> taskQueue]
    /\ UNCHANGED <<agentState, protoReplaced, objProto, fnProps, taskQueue, taskHistory,
                   sseClients, received, gone, closed, published, steps, tasksAsString,
                   clock>>

ReadUpdateBodies == MappingsOver({<<"DevBot">>, <<"constructor">>}, {BusyValue})
ReadStatusBodies == [agent : {"DevBot", "constructor"}, status : {"Busy"}]
ReadTaskBodies == {[id |-> 1, agent |-> "DevBot", task |-> "deploy"]}

NextRead ==
    \/ \E updates \in ReadUpdateBodies : UpdateState(updates) /\ UNCHANGED manager
    \/ \E body \in ReadStatusBodies : AgentStatus(body) /\ UNCHANGED manager
    \/ \E task \in ReadTaskBodies : TaskAssigned(task) /\ UNCHANGED manager
    \/ Events /\ UNCHANGED manager
    \/ GetAgents /\ UNCHANGED manager
    \/ GetTaskHistory /\ UNCHANGED manager
    \/ GetTaskQueue /\ UNCHANGED manager

SpecRead == Init /\ [][NextRead]_vars

(***************************************************************************)
(* The Office Manager of src/agent.js: main (148-171) runs one round, then *)
(* starts a timer that runs a round every 30 seconds. A round gathers the  *)
(* sessions, builds the state and posts it to /api/update-state; the post  *)
(* is answered, fails with an 'error' event, or stays pending. manager     *)
(* holds posts, one [outcome, state, returned] per round started, whether  *)
(* setInterval was called, and whether the process has exited.             *)
(***************************************************************************)
\* getActiveSessions, lines 47-56: label -> session
getActiveSessions ==
    [DevBot      |-> [activeMinutes |-> 45, messages |-> 12],
     ResearchBot |-> [activeMinutes |-> 23, messages |-> 5],
     DebugBot    |-> [activeMinutes |-> 67, messages |-> 19],
     DesignBot   |-> [activeMinutes |-> 12, messages |-> 3]]

\* the state updateDashboard builds, lines 59-76, with random[name] the value of
\* Math.floor(Math.random() * 25)
ManagerState(sessions, random) ==
    [type    |-> "object",
     entries |-> [i \in DOMAIN AGENT_ROLES |->
        LET name == AGENT_ROLES[i]
            isActive == name \in DOMAIN sessions
        IN  [key   |-> name,
             value |-> [type |-> "object",
                        own  |-> [name |-> name,
                                  role |-> AgentRole[name],
                                  emoji |-> AgentEmoji[name],
                                  color |-> getAgentColor(name),
                                  status |-> IF isActive THEN "online" ELSE "idle",
                                  activeMinutes |->
                                      Num(IF isActive THEN sessions[name].activeMinutes
                                          ELSE 0),
                                  messages |->
                                      Num(IF isActive THEN sessions[name].messages ELSE 0),
                                  productivity |-> Num(Min(100, 70 + random[name]))]]]]]

\* the values of Math.floor(Math.random() * 25) in one round
ManagerDraws ==
    {[a \in KnownAgents |-> 0],
     [a \in KnownAgents |-> IF a = "DevBot" THEN 24 ELSE 0]}

\* what a round that has not returned holds in place of the returned state
NotReturned == [type |-> "none", entries |-> <<>>]

\* a round starts: the sessions are gathered, the state is built and postJSON is
\* called (lines 152-153 and 158-159, 59-80)
StartRound(random) ==
    manager' = [manager EXCEPT
                   !.posts = Append(@, [outcome  |-> "pending",
                                        state    |-> ManagerState(getActiveSessions, random),
                                        returned |-> NotReturned])]

\* main, lines 148-153: the first round
Main(random) ==
    /\ ~manager.exited
    /\ manager.posts = <<>>
    /\ StartRound(random)
    /\ UNCHANGED serverVars

\* the timer callback, lines 156-163: a later round, whatever became of the others
Tick(random) ==
    /\ ~manager.exited
    /\ manager.interval
    /\ Len(manager.posts) < MaxRounds
    /\ StartRound(random)
    /\ UNCHANGED serverVars

\* updateDashboard returns the state (line 85); once the first round has returned,
\* main goes on to setInterval (156)
RoundReturns(i, outcome) ==
    manager' = [manager EXCEPT !.posts[i].outcome = outcome,
                               !.posts[i].returned = manager.posts[i].state,
                               !.interval = @ \/ i = 1]

\* the server answers the post of round i: postJSON resolves whatever the status
\* (lines 130-139)
PostAnswered(i) ==
    /\ ~manager.exited
    /\ i \in DOMAIN manager.posts
    /\ manager.posts[i].outcome = "pending"
    /\ UpdateState(manager.posts[i].state)
    /\ RoundReturns(i, "answered")

\* PostFails with the rejection leaving updateDashboard instead of being caught
PostFailsUncaught(i) ==
    /\ ~manager.exited
    /\ i \in DOMAIN manager.posts
    /\ manager.posts[i].outcome = "pending"
    /\ manager' = [manager EXCEPT !.posts[i].outcome = "failed"]
    /\ UNCHANGED serverVars

\* the request of round i emits 'error' (line 142): postJSON rejects and the catch
\* of lines 81-83 logs the failure
PostFails(i) ==
    /\ ~manager.exited
    /\ i \in DOMAIN manager.posts
    /\ manager.posts[i].outcome = "pending"
    /\ RoundReturns(i, "failed")
    /\ UNCHANGED serverVars

\* SIGTERM: process.exit(0) (lines 166-169; the default action before the handler
\* is installed)
Sigterm ==
    /\ ~manager.exited
    /\ manager' = [manager EXCEPT !.exited = TRUE]
    /\ UNCHANGED serverVars

TimerFires == \E random \in ManagerDraws : Tick(random)

NextManager ==
    \/ \E random \in ManagerDraws : Main(random)
    \/ TimerFires
    \/ \E i \in 1..MaxRounds : PostAnswered(i)
    \/ \E i \in 1..MaxRounds : PostFails(i)
    \/ Sigterm

\* the timer of setInterval fires as long as the process runs
SpecManager == Init /\ [][NextManager]_vars /\ WF_vars(TimerFires)

(***************************************************************************)
(* Properties.                                                             *)
(***************************************************************************)
\* the step handled a POST /api/update-state whose body is a mapping
UpdateStep == steps' # steps /\ request'.op = "update-state" /\ request'.body.type = "object"

\* the entries of the body of such a step
StepEntries == Range(request'.body.entries)

\* the object e.value has an own property f
Carries(e, f) == e.value.type = "object" /\ f \in DOMAIN e.value.own

ValidStatus(x) == ToLowerCase(x) \in validStatuses
InRange(x, hi) == x >= Num(0) /\ x <= Num(hi)

\* C1: in every reachable state the identifiers stored in agentState are exactly the
\* nine startup names, whatever keys and agent names the requests carry.
C1_StoreHoldsKnownAgentsOnly == DOMAIN agentState = KnownAgents

\* C2: in every reachable state the status of each of the nine agents is one of the
\* four lowercase values online, offline, idle, busy.
C2_StatusInClosedSet == \A a \in KnownAgents : agentState[a].status \in validStatuses

\* C3: a bulk update for a known agent whose status is a string outside the closed
\* set leaves the agent's status as it was, and applies the valid tasks and
\* productivity fields of the same update.
C3_InvalidStatusDropped ==
    [][UpdateStep =>
        \A e \in StepEntries :
            (e.key \in KnownAgents /\ Carries(e, "status") /\ ~ValidStatus(e.value.own.status)) =>
                /\ agentState'[e.key].status = agentState[e.key].status
                /\ (Carries(e, "tasks") /\ InRange(e.value.own.tasks, 1000)) =>
                        agentState'[e.key].tasks = e.value.own.tasks
                /\ (Carries(e, "productivity") /\ InRange(e.value.own.productivity, 100)) =>
                        agentState'[e.key].productivity = e.value.own.productivity]_vars

\* C4: a bulk update for a known agent whose productivity is outside [0,100] or whose
\* tasks is outside [0,1000] leaves that field as it was, applies every other valid
\* field of the same agent's update (a status up to its case), and leaves every
\* agent the update does not name untouched.
C4_OutOfRangeFieldDropped ==
    [][UpdateStep =>
        \A e \in StepEntries :
            (/\ e.key \in KnownAgents
             /\ \/ Carries(e, "productivity") /\ ~InRange(e.value.own.productivity, 100)
                \/ Carries(e, "tasks") /\ ~InRange(e.value.own.tasks, 1000)) =>
                /\ (Carries(e, "productivity") /\ ~InRange(e.value.own.productivity, 100)) =>
                        agentState'[e.key].productivity = agentState[e.key].productivity
                /\ (Carries(e, "tasks") /\ ~InRange(e.value.own.tasks, 1000)) =>
                        agentState'[e.key].tasks = agentState[e.key].tasks
                /\ (Carries(e, "status") /\ ValidStatus(e.value.own.status)) =>
                        ToLowerCase(agentState'[e.key].status) = ToLowerCase(e.value.own.status)
                /\ (Carries(e, "tasks") /\ InRange(e.value.own.tasks, 1000)) =>
                        agentState'[e.key].tasks = e.value.own.tasks
                /\ (Carries(e, "productivity") /\ InRange(e.value.own.productivity, 100)) =>
                        agentState'[e.key].productivity = e.value.own.productivity
                /\ \A b \in KnownAgents \ {x.key : x \in StepEntries} :
                        agentState'[b] = agentState[b]]_vars

\* C5: every POST /api/update-state whose body is a mapping is answered with
\* {success: true}, whatever the values under its keys are.
C5_MappingAlwaysSucceeds ==
    (request.op = "update-state" /\ request.body.type = "object") =>
        response = [status |-> 200, success |-> TRUE]

\* C6: a POST /api/update-state whose body is not a mapping (null, an array, a
\* primitive) is answered with 400, leaves the store unchanged and publishes nothing.
C6_NonMappingRejected ==
    [][(steps' # steps /\ request'.op = "update-state" /\ request'.body.type # "object") =>
            /\ response'.status = 400
            /\ agentState' = agentState
            /\ published' = published
            /\ received' = received]_vars

\* the step handled a POST /api/task-assigned whose body names agent a
AppendStepFor(a) ==
    /\ steps' # steps
    /\ request'.op = "task-assigned"
    /\ "agent" \in DOMAIN request'.body
    /\ request'.body.agent = a

C8_NumericFieldsIntegral ==
    \A a \in KnownAgents :
        /\ IsInteger(agentState[a].productivity)
        /\ InRange(agentState[a].productivity, 100)
        /\ IsInteger(agentState[a].tasks)
        /\ agentState[a].tasks >= Num(0)

\* what a step appends to the messages of handle h
Suffix(h) == SubSeq(received'[h], Len(received[h]) + 1, Len(received'[h]))

\* a step keeps, in order, the messages handle h has
KeepsMessages(h) ==
    /\ Len(received'[h]) >= Len(received[h])
    /\ SubSeq(received'[h], 1, Len(received[h])) = received[h]

\* C9: a subscribe pushes the new handle and, in the same step and without changing
\* the store, writes to it exactly one message, a state event whose snapshot is the
\* store at that moment; the messages of a handle are only ever appended to, so
\* this event precedes every other one the subscriber receives.
C9_SubscribeWritesSnapshotFirst ==
    [][/\ \A res \in Range(sseClients') \ Range(sseClients) :
            /\ res \notin DOMAIN received
            /\ received'[res] = <<[type |-> "state", agents |-> agentState]>>
            /\ agentState' = agentState
       /\ \A res \in DOMAIN received' \ DOMAIN received : res \in Range(sseClients')
       /\ \A res \in DOMAIN received :
            /\ KeepsMessages(res)
            /\ Len(received[res]) >= 1
            /\ received[res][1].type = "state"]_vars

\* a client has subscribed after the store changed and holds that store's snapshot
C9_Witness ==
    /\ request.op = "events"
    /\ agentState # InitialAgentState
    /\ received[request.res] = <<[type |-> "state", agents |-> agentState]>>

\* C10: every step keeps, in order, the messages each handle has; a step that
\* publishes appends exactly one message, carrying the store after the mutation,
\* to every handle in the client list, the same message for all of them, and nothing
\* to the others; a step that publishes nothing appends nothing to a handle of the
\* list.
C10_OrderedDelivery ==
    [][\A h \in DOMAIN received :
        /\ KeepsMessages(h)
        /\ published' - published \in {0, 1}
        /\ IF h \in Range(sseClients)
           THEN /\ Len(Suffix(h)) = published' - published
                /\ published' # published => Suffix(h)[1].agents = agentState'
                /\ \A g \in Range(sseClients) : Suffix(g) = Suffix(h)
           ELSE Suffix(h) = <<>>]_vars

\* two clients are in the list; the first has received two different events after
\* its snapshot, the second, which joined between them, the later one only
C10_Witness ==
    /\ Range(sseClients) = {1, 2}
    /\ Len(received[1]) = 3
    /\ Len(received[2]) = 2
    /\ received[1][2] # received[1][3]
    /\ received[1][3] = received[2][2]
    /\ received[1][3].agents = agentState

NoDuplicates(seq) == \A i, j \in DOMAIN seq : i # j => seq[i] # seq[j]

\* the number of messages handle h had before the step
LenBefore(h) == IF h \in DOMAIN received THEN Len(received[h]) ELSE 0

\* C11: the client list never holds a handle twice, and every step adds to each
\* handle exactly as many messages as there were publishes in the step (none or
\* one) if the handle was in the list, its one initial message if the step
\* subscribed it, and none otherwise.
C11_OneWritePerPublish ==
    [][/\ NoDuplicates(sseClients')
       /\ \A h \in DOMAIN received' :
            Len(received'[h]) - LenBefore(h) =
                IF h \in Range(sseClients) THEN published' - published
                ELSE IF h \notin DOMAIN received THEN 1
                ELSE 0]_vars

\* an event was published after the first of two clients had left: the client
\* that stayed has it once, the one that left has its initial message only
C11_Witness ==
    /\ published = 1
    /\ sseClients = <<2>>
    /\ CloseCount(1) = 1
    /\ Len(received[1]) = 1
    /\ Len(received[2]) = 2

\* the mutation the request of the step asks for is in the state after the step
MutationApplied ==
    /\ request'.op = "agent-status" =>
            agentState'[Trim(request'.body.agent)].status = Trim(request'.body.status)
    /\ request'.op = "update-state" =>
            \A e \in StepEntries :
                (e.key \in KnownAgents /\ Carries(e, "status") /\ ValidStatus(e.value.own.status)) =>
                    agentState'[e.key].status = e.value.own.status

\* C12: when a publish writes to a handle of the list whose connection is lost, that
\* handle gets nothing, every other handle of the list gets the one event with the
\* store after the mutation, the mutation is applied and the request is answered
\* with success.
C12_WriteFailureSwallowed ==
    [][(published' # published /\ Range(sseClients) \cap gone # {}) =>
            /\ \A h \in Range(sseClients) \cap gone : Suffix(h) = <<>>
            /\ \A g \in Range(sseClients) \ gone :
                    /\ Len(Suffix(g)) = 1
                    /\ Suffix(g)[1].agents = agentState'
            /\ MutationApplied
            /\ response' = [status |-> 200, success |-> TRUE]]_vars

\* the first of two clients is lost and still in the list; an event was published
\* and the second client has it
C12_Witness ==
    /\ sseClients = <<1, 2>>
    /\ 1 \in gone
    /\ published = 1
    /\ Len(received[1]) = 1
    /\ Len(received[2]) = 2
    /\ response = [status |-> 200, success |-> TRUE]

\* C13: a 'close' event for a handle whose 'close' was handled before leaves the
\* client list and everything else the server holds as it was, and raises no error
\* (the response of the last request is untouched).
C13_SecondCloseChangesNothing ==
    [][(closed' # closed /\ CloseCount(request'.res) >= 1) =>
            /\ sseClients' = sseClients
            /\ UNCHANGED <<agentState, taskQueue, taskHistory, received, gone, published,
                           response>>]_vars

\* the 'close' of the first client was handled twice while the second stayed
C13_Witness ==
    /\ CloseCount(1) = 2
    /\ sseClients = <<2>>

\* the step appended a task for the known agent its body names: an accepted
\* /api/assign-task or a /api/task-assigned
AppendFor(a) ==
    /\ steps' # steps
    /\ \/ request'.op = "assign-task" /\ response'.status = 200
       \/ request'.op = "task-assigned"
    /\ "agent" \in DOMAIN request'.body
    /\ request'.body.agent = a

\* C14: a task append for a known agent adds exactly 1 to the agent's tasks count,
\* which is a number, leaves every other record of the store as it was, appends one
\* record to the history and to the queue, and writes to every handle of the list
\* one task_assigned event carrying that record and the store after the increment.
C14_AppendIncrementsAndPublishes ==
    [][\A a \in KnownAgents : AppendFor(a) =>
        /\ a \notin tasksAsString'
        /\ agentState'[a].tasks = agentState[a].tasks + Num(1)
        /\ DOMAIN agentState' = DOMAIN agentState
        /\ \A b \in DOMAIN agentState \ {a} : agentState'[b] = agentState[b]
        /\ Len(taskHistory') = Len(taskHistory) + 1
        /\ Len(taskQueue') = Len(taskQueue) + 1
        /\ \A h \in Range(sseClients) :
                Suffix(h) = <<[type |-> "task_assigned",
                               task |-> taskHistory'[Len(taskHistory')],
                               agents |-> agentState']>>]_vars

\* a record of the task log names a known agent and has a non-empty description
ValidTask(rec) ==
    /\ "agent" \in DOMAIN rec
    /\ rec.agent \in KnownAgents
    /\ "task" \in DOMAIN rec
    /\ rec.task # ""

\* C15: in every reachable state every record of the history and of the queue names
\* a known agent and has a non-empty description (an append that does not is
\* refused and logs nothing).
C15_LogHoldsValidTasksOnly ==
    /\ \A i \in DOMAIN taskHistory : ValidTask(taskHistory[i])
    /\ \A i \in DOMAIN taskQueue : ValidTask(taskQueue[i])

\* the step handled a POST /api/agent-status whose agent and status pass the first
\* check of the handler
StatusStep ==
    /\ steps' # steps
    /\ request'.op = "agent-status"
    /\ ~Falsy(validateInput(request'.body.agent, 50))
    /\ ~Falsy(validateInput(request'.body.status, 50))

\* C16: a single-status request whose agent passes validateInput and is not one of
\* the nine known names is answered with 404, changes neither the store nor any
\* other object and publishes nothing.
C16_UnknownAgentNotFound ==
    [][(StatusStep /\ validateInput(request'.body.agent, 50) \notin KnownAgents) =>
            /\ response'.status = 404
            /\ UNCHANGED <<agentState, objProto, fnProps, taskQueue, taskHistory, sseClients,
                           received, published>>]_vars

\* C17: a single-status request for a known agent whose status is not one of the four
\* values of the enumeration (in any case, spaces around it aside) is answered with
\* 400, leaves the store unchanged and publishes nothing.
C17_InvalidStatusRejected ==
    [][(/\ steps' # steps
        /\ request'.op = "agent-status"
        /\ ~Missing(request'.body, "agent")
        /\ ~Missing(request'.body, "status")
        /\ Trim(request'.body.agent) \in KnownAgents
        /\ ~ValidStatus(Trim(request'.body.status))) =>
            /\ response'.status = 400
            /\ UNCHANGED <<agentState, received, published>>]_vars

C19_AssignTaskForbidden ==
    [][(steps' # steps /\ request'.op = "assign-task") =>
            /\ response'.status = 403
            /\ UNCHANGED <<agentState, objProto, fnProps, taskQueue, taskHistory, sseClients,
                           received, published>>]_vars

\* an assign-task request was refused after a task-assigned notification had put a
\* record in the log: the log still holds that one record
C19_Witness ==
    /\ request.op = "assign-task"
    /\ request.body = [agent |-> "DevBot", task |-> "deploy"]
    /\ response.status = 403
    /\ Len(taskHistory) = 1
    /\ published = 1

\* C20: with /api/assign-task disabled no request puts a task record in the history
\* or in the queue, and no subscriber is written a task_assigned event.
C20_NoTaskFromCallers ==
    /\ taskHistory = <<>>
    /\ taskQueue = <<>>
    /\ \A h \in DOMAIN received :
            \A i \in DOMAIN received[h] : received[h][i].type # "task_assigned"

RecordFields == {"status", "tasks", "productivity"}

\* C21: a bulk update leaves, for every known agent it names, each field that the
\* agent's value does not carry as it was, leaves the record of every known agent it
\* does not name as it was, and leaves the task log and the client list unchanged.
C21_BulkUpdateFrame ==
    [][UpdateStep =>
        /\ \A e \in StepEntries :
                e.key \in KnownAgents =>
                    \A f \in RecordFields :
                        ~Carries(e, f) => agentState'[e.key][f] = agentState[e.key][f]
        /\ \A a \in KnownAgents \ {e.key : e \in StepEntries} :
                agentState'[a] = agentState[a]
        /\ UNCHANGED <<taskQueue, taskHistory, sseClients>>]_vars

\* the same for the updates handled while no request has put a property on
\* Object.prototype
C21_FrameWithoutPollution ==
    [][(UpdateStep /\ objProto = EmptyObject) =>
        /\ \A e \in StepEntries :
                e.key \in KnownAgents =>
                    \A f \in RecordFields :
                        ~Carries(e, f) => agentState'[e.key][f] = agentState[e.key][f]
        /\ \A a \in KnownAgents \ {e.key : e \in StepEntries} :
                agentState'[a] = agentState[a]]_vars

C23_IdsStrictlyIncreasing ==
    \A i, j \in DOMAIN taskHistory :
        i < j => taskHistory[i].id < taskHistory[j].id

\* C24: every step keeps the history as a prefix of the new history; only a task
\* append changes it, by one record at the end (so the history of every later state
\* extends that of every earlier one).
C24_HistoryAppendOnly ==
    [][/\ Len(taskHistory') >= Len(taskHistory)
       /\ SubSeq(taskHistory', 1, Len(taskHistory)) = taskHistory
       /\ taskHistory' # taskHistory =>
            /\ request'.op \in {"task-assigned", "assign-task"}
            /\ steps' # steps
            /\ Len(taskHistory') = Len(taskHistory) + 1]_vars

\* two different records were appended, and a client subscribed and left: the
\* history holds both in the order of arrival
C24_Witness ==
    /\ Len(taskHistory) = 2
    /\ "agent" \notin DOMAIN taskHistory[1]
    /\ "agent" \in DOMAIN taskHistory[2]
    /\ CloseCount(1) = 1

\* C25: in every reachable state the queue and the history hold the same records in
\* the same order.
C25_QueueEqualsHistory == taskQueue = taskHistory

\* the log holds a record built by /api/assign-task followed by one that came
\* through /api/task-assigned
C25_Witness ==
    /\ Len(taskQueue) = 2
    /\ "timestamp" \in DOMAIN taskQueue[1]
    /\ "timestamp" \notin DOMAIN taskQueue[2]
    /\ taskHistory[2] = request.body

\* the step handled the 'close' event of handle h
CloseStepOf(h) == closed' # closed /\ request'.op = "close" /\ request'.res = h

\* C26: the client list changes only by a subscribe, which appends the new handle,
\* and by the 'close' event of a handle, which removes that handle and no other; a
\* step that publishes leaves the list as it is, also when a write fails; a handle
\* gets no message once its 'close' was handled; a handle of the list stays in it
\* until its own 'close'.
C26_ListChangesBySubscribeAndClose ==
    [][/\ sseClients' # sseClients =>
            \/ /\ request'.op = "events"
               /\ request'.res \notin DOMAIN received
               /\ sseClients' = Append(sseClients, request'.res)
            \/ /\ CloseStepOf(request'.res)
               /\ Range(sseClients') = Range(sseClients) \ {request'.res}
               /\ Len(sseClients') = Len(sseClients) - 1
       /\ published' # published => sseClients' = sseClients
       /\ \A h \in DOMAIN received :
            CloseCount(h) >= 1 => received'[h] = received[h] /\ h \notin Range(sseClients')
       /\ \A h \in Range(sseClients) :
            h \in Range(sseClients') \/ CloseStepOf(h)]_vars

\* the second client left before anything was published; the first, whose
\* connection is lost, is still in the list after a publish that could not reach it
C26_Witness ==
    /\ sseClients = <<1>>
    /\ 1 \in gone
    /\ CloseCount(2) = 1
    /\ published = 1
    /\ Len(received[1]) = 1
    /\ Len(received[2]) = 1

\* the status a sync run computed for an agent
ComputedStatus(sessions, name) == IF IsActive(sessions, name) THEN "online" ELSE "idle"

\* the bodies the three scripts build from the same sessions and random draws
SyncBodies(sessions, random) ==
    {AgentBuildState(sessions, random), Cron1BuildState(sessions, random),
     Cron2BuildState(sessions, random)}

\* C27: the body a sync script posts is keyed by known agents and carries statuses
\* of the closed set, and once the server answers it with success every known
\* agent's stored status is the status the run computed: online for an agent with
\* a recent session, idle for the others.
C27_SyncStoresComputedStatus ==
    [][\A sessions \in SyncSessions, random \in RandomDraws :
        (/\ UpdateStep
         /\ response'.status = 200
         /\ request'.body \in SyncBodies(sessions, random))
        => /\ \A e \in StepEntries :
                /\ e.key \in KnownAgents
                /\ Carries(e, "status")
                /\ e.value.own.status \in validStatuses
           /\ \A a \in KnownAgents :
                agentState'[a].status = ComputedStatus(sessions, a)]_vars

\* the same for sync-agent.js and the second sync-cron.js alone
C27_PlainBodyStoresComputedStatus ==
    [][\A sessions \in SyncSessions, random \in RandomDraws :
        (/\ UpdateStep
         /\ response'.status = 200
         /\ request'.body \in SyncBodies(sessions, random)
                                \ {Cron1BuildState(sessions, random)})
        => /\ \A e \in StepEntries :
                /\ e.key \in KnownAgents
                /\ Carries(e, "status")
                /\ e.value.own.status \in validStatuses
           /\ \A a \in KnownAgents :
                agentState'[a].status = ComputedStatus(sessions, a)]_vars


\* C28: in the server of src/server.js lines 137-394 the store holds a record for
\* the startup identifiers and for no other, whatever bulk updates were handled.
C28_OpenStoreKeepsStartupKeys == DOMAIN agentState = DOMAIN OpenInitialAgentState


\* C29: in every reachable state every record of the store has exactly the fields
\* status, tasks and productivity; no other field of a bulk update is stored.
C29_RecordsHoldThreeFields == \A a \in DOMAIN agentState : DOMAIN agentState[a] = RecordFields

\* the same for the records of the nine startup agents
C29_KnownRecordsHoldThreeFields == \A a \in KnownAgents : DOMAIN agentState[a] = RecordFields

\* a sync run that sent name, emoji, role, color and tokens was answered with success
C29_SyncAccepted ==
    /\ request.op = "update-state"
    /\ response.status = 200
    /\ \E e \in Range(request.body.entries) :
         e.key = "DevBot" /\ {"name", "emoji", "role", "color", "tokens"} \subseteq DOMAIN e.value.own
    /\ agentState["DevBot"].status = "online"


\* C30: a bulk update whose body is a mapping and which leaves the store as it was
\* is answered with success, and every subscriber is written exactly one state
\* event carrying the unchanged snapshot.
C30_NoOpUpdateStillPublishes ==
    [][(UpdateStep /\ agentState' = agentState)
        => /\ response' = [status |-> 200, success |-> TRUE]
           /\ published' = published + 1
           /\ \A h \in Range(sseClients) :
                Suffix(h) = <<[type |-> "state", agents |-> agentState]>>]_vars

\* the same for the mappings that give no known agent the value null
C30_NoOpWithoutNullStillPublishes ==
    [][(/\ UpdateStep
        /\ agentState' = agentState
        /\ \A e \in StepEntries : e.key \in KnownAgents => e.value.type # "null")
        => /\ response' = [status |-> 200, success |-> TRUE]
           /\ published' = published + 1
           /\ \A h \in Range(sseClients) :
                Suffix(h) = <<[type |-> "state", agents |-> agentState]>>]_vars


\* a field of a single-status body that is missing or not a string, empty once
\* trimmed, longer than 50 characters, or holds a blocked character
BadField(x) == x = NotAString \/ Length(x) > 50 \/ HasBlockedChar(x) \/ Trim(x) = ""

\* the answer the fixed order of checks gives a single-status body
OrderedAnswer(body) ==
    IF BadField(body.agent) \/ BadField(body.status)
    THEN [status |-> 400, error |-> "Invalid agent or status"]
    ELSE IF Trim(body.agent) \notin KnownAgents
    THEN [status |-> 404, error |-> "Agent not found"]
    ELSE IF ~ValidStatus(Trim(body.status))
    THEN [status |-> 400, error |-> "Invalid status value"]
    ELSE [status |-> 200, success |-> TRUE]

\* the step handled a POST /api/agent-status
AnyStatusStep == steps' # steps /\ request'.op = "agent-status"

\* C31: a single-status request is checked in a fixed order: a bad agent or status
\* field gives 400 before any lookup, then an agent outside the nine known names
\* gives 404 even when the status is outside the enumeration, and only a known agent
\* gets the 400 of an invalid status; each of the three failures leaves the store
\* unchanged and publishes nothing.
C31_ChecksInFixedOrder ==
    [][AnyStatusStep =>
        /\ response' = OrderedAnswer(request'.body)
        /\ response'.status # 200 =>
             UNCHANGED <<agentState, objProto, fnProps, received, published>>]_vars

\* the same for the requests whose agent is not a name every object inherits
C31_OrderForOwnNames ==
    [][(AnyStatusStep /\ request'.body.agent \notin InheritedFunctions \cup {"__proto__"}) =>
        /\ response' = OrderedAnswer(request'.body)
        /\ response'.status # 200 =>
             UNCHANGED <<agentState, objProto, fnProps, received, published>>]_vars

\* an unknown agent with a status outside the enumeration was answered 404
C31_UnknownBeforeInvalid ==
    /\ request.op = "agent-status"
    /\ request.body = [agent |-> "Ghost", status |-> "working"]
    /\ response.status = 404


\* the step answered one of the three read routes
ReadStep == request'.op \in {"agents", "task-history", "task-queue"}

\* the entry GET /api/agents returned for an agent shows its stored record
ShowsStored(entry, stored) ==
    \A f \in RecordFields :
        /\ f \in DOMAIN entry <=> f \in DOMAIN stored
        /\ f \in DOMAIN stored => entry[f] = stored[f]

\* C32: a read of /api/agents, /api/task-history or /api/task-queue changes neither
\* the store, the task log nor the client list and publishes nothing; /api/agents
\* returns one entry for every stored agent, with the stored status, tasks and
\* productivity.
C32_ReadsChangeNothing ==
    [][ReadStep =>
        /\ UNCHANGED <<agentState, objProto, fnProps, taskQueue, taskHistory, sseClients,
                       received, published>>
        /\ request'.op = "agents" =>
             /\ DOMAIN response'.body = DOMAIN agentState
             /\ \A a \in DOMAIN agentState : ShowsStored(response'.body[a], agentState[a])]_vars

\* the same, with the entries of the nine startup agents only
C32_ReadsShowKnownAgents ==
    [][ReadStep =>
        /\ UNCHANGED <<agentState, objProto, fnProps, taskQueue, taskHistory, sseClients,
                       received, published>>
        /\ request'.op = "agents" =>
             /\ DOMAIN response'.body = DOMAIN agentState
             /\ \A a \in KnownAgents : ShowsStored(response'.body[a], agentState[a])
        /\ request'.op = "task-history" => response'.body = taskHistory
        /\ request'.op = "task-queue" => response'.body = taskQueue]_vars

\* /api/agents was read after DevBot's record changed, with a client connected
C32_ReadAfterChange ==
    /\ request.op = "agents"
    /\ response.body["DevBot"].status = "Busy"
    /\ response.body["DevBot"].tasks = Num(1)
    /\ response.body["DevBot"].role = "Lead Developer"
    /\ sseClients # <<>>


\* the agents a built state has an entry for
EntryKeys(state) == {e.key : e \in Range(state.entries)}

\* C33: a post that fails in one round of the Office Manager is caught: the round's
\* updateDashboard still returns a state with one entry for each of the nine
\* agents, and, unless the process is told to exit, the next round is started and
\* posts again.
C33_FailedRoundDoesNotStopLoop ==
    /\ [](\A i \in DOMAIN manager.posts :
            manager.posts[i].outcome # "pending" =>
                /\ manager.posts[i].returned # NotReturned
                /\ Len(manager.posts[i].returned.entries) = Cardinality(KnownAgents)
                /\ EntryKeys(manager.posts[i].returned) = KnownAgents)
    /\ \A i \in 1..(MaxRounds - 1) :
            (Len(manager.posts) >= i /\ manager.posts[i].outcome = "failed")
                ~> (Len(manager.posts) > i \/ manager.exited)

\* two rounds failed one after the other and the third was answered
C33_Witness ==
    /\ Len(manager.posts) = 3
    /\ manager.posts[1].outcome = "failed"
    /\ manager.posts[2].outcome = "failed"
    /\ manager.posts[3].outcome = "answered"
    /\ ~manager.exited

====
